---- MODULE Spec2Model ----
(***************************************************************************)
(* Antigravity Quota Monitor (src/app.py): the ConnectionManager cache,    *)
(* Language Server detection and port probing, the /api/quota request      *)
(* handler with its reset-and-retry path, and the quota normaliser.        *)
(*                                                                         *)
(* Conventions.  Python None is NoneConn for a connection and NoClient for *)
(* a client.  A percentage rounded to one decimal is held in tenths (75.0  *)
(* is 750).  A remainingFraction is held as its JSON number kind and its   *)
(* value in thousandths (0.25 is [kind |-> "float", val |-> 250]).         *)
(***************************************************************************)
EXTENDS Integers, Sequences, FiniteSets, TLC

VARIABLES
    mgr_connection,  \* ConnectionManager._connection
    mgr_client,      \* ConnectionManager._client (a client id, or NoClient)
    open,            \* ids of the httpx clients built and not yet closed
    nclients,        \* number of httpx clients built so far
    procs,           \* what psutil.process_iter enumerates
    portResp,        \* how each local port answers the GetUnleashData probe
    pc,              \* per request thread: position in api_quota
    loc,             \* per request thread: local variables
    gh,              \* per request thread: history of the current request
    connPass,        \* detection pass that built the cached connection
    connProbe,       \* the successful probe behind the cached connection
    npass,           \* number of detection passes started
    started,         \* number of requests started
    lastCall,        \* the last ConnectionManager entry point that completed
    raw,             \* normaliser: the raw input under test
    out              \* normaliser: the result under test

vars == <<mgr_connection, mgr_client, open, nclients, procs, portResp, pc, loc,
          gh, connPass, connProbe, npass, started, lastCall, raw, out>>

-----------------------------------------------------------------------------
(* Bounds *)

MaxRequests == 2
MaxProcs == 2

Threads == {"t1", "t2"}

-----------------------------------------------------------------------------
(* Values *)

NoneConn == [none |-> TRUE]
NoClient == 0

\* The local ports of the model.
PortSet == {1, 2, 3}

LsName == "language_server_linux"
MarkerFlag == "--extension_server_port"
TokenFlag == "--csrf_token"

\* One command-line argument: the text k, or k=v when eq.
Arg(k) == [k |-> k, eq |-> FALSE, v |-> ""]
ArgEq(k, v) == [k |-> k, eq |-> TRUE, v |-> v]

\* `ls_name in s`, for the texts the model uses.
ContainsLsName(s) ==
    s \in {"language_server_linux", "/opt/ag/bin/language_server_linux"}

\* `"--extension_server_port" in s`, for the texts the model uses.
ContainsMarker(s) == s = MarkerFlag

\* The longest prefix of s matched by [a-zA-Z0-9\-]+ ("" when s does not
\* start with such a character), for the texts the model uses: a run of
\* letters, digits and hyphens is matched whole, an underscore or a slash
\* ends the match.
TokenPrefix(s) ==
    CASE s = "tokA" -> "tokA"
      [] s = "tok-B" -> "tok-B"
      [] s = "42" -> "42"
      [] s = "9001" -> "9001"
      [] s = "/opt/ag/bin/language_server_linux" -> ""
      [] s = "--extension_server_port" -> "--extension"
      [] s = "--csrf_token" -> "--csrf"
      [] s = "--verbose" -> "--verbose"
      [] s = "python3" -> "python3"
      [] s = "language_server_linux" -> "language"
      [] OTHER -> ""

\* int() of the longest prefix of s matched by \d+ (-1 when there is none).
DigitPrefix(s) ==
    CASE s = "42" -> 42
      [] s = "9001" -> 9001
      [] OTHER -> -1

-----------------------------------------------------------------------------
(* detect_language_server: the per-process part *)

\* The text of one argument as it stands in " ".join(cmdline).
ArgText(a) == a.k

\* `ls_name in name or ls_name in cmd_str`
NameMatches(p) ==
    \/ ContainsLsName(p.name)
    \/ \E i \in 1..Len(p.cmdline) : ContainsLsName(ArgText(p.cmdline[i]))

\* `"--extension_server_port" in cmd_str`
HasMarker(p) ==
    \E i \in 1..Len(p.cmdline) : ContainsMarker(ArgText(p.cmdline[i]))

\* The text that follows the separator run [=\s]+ after the flag at
\* position i of the command line ("" when nothing follows).
AfterFlag(cmd, i) ==
    IF cmd[i].eq /\ cmd[i].v # "" THEN cmd[i].v
    ELSE IF i < Len(cmd) THEN ArgText(cmd[i + 1])
    ELSE ""

\* Positions of the command line, in order, at which
\* --csrf_token[=\s]+([a-zA-Z0-9\-]+) matches.
TokenMatches(cmd) ==
    {i \in 1..Len(cmd) : cmd[i].k = TokenFlag /\ TokenPrefix(AfterFlag(cmd, i)) # ""}

\* re.search(r"--csrf_token[=\s]+([a-zA-Z0-9\-]+)", cmd_str): group(1) of the
\* leftmost match, "" when there is no match.
ExtractToken(cmd) ==
    IF TokenMatches(cmd) = {} THEN ""
    ELSE LET i == CHOOSE j \in TokenMatches(cmd) :
                    \A k \in TokenMatches(cmd) : j <= k
         IN  TokenPrefix(AfterFlag(cmd, i))

PortMatches(cmd) ==
    {i \in 1..Len(cmd) : cmd[i].k = MarkerFlag /\ DigitPrefix(AfterFlag(cmd, i)) >= 0}

\* int(port_match.group(1)) if port_match else 0
ExtractPort(cmd) ==
    IF PortMatches(cmd) = {} THEN 0
    ELSE LET i == CHOOSE j \in PortMatches(cmd) :
                    \A k \in PortMatches(cmd) : j <= k
         IN  DigitPrefix(AfterFlag(cmd, i))

RECURSIVE CollectPorts(_, _)
\* The loop over proc.net_connections(): the listening ports in the order
\* met, each once.
CollectPorts(conns, ports) ==
    IF conns = <<>> THEN ports
    ELSE LET c == Head(conns) IN
         IF c.status = "LISTEN" /\ ~(\E i \in 1..Len(ports) : ports[i] = c.port)
         THEN CollectPorts(Tail(conns), Append(ports, c.port))
         ELSE CollectPorts(Tail(conns), ports)

RECURSIVE InsertAsc(_, _)
InsertAsc(x, s) ==
    IF s = <<>> THEN <<x>>
    ELSE IF x < Head(s) THEN <<x>> \o s
    ELSE <<Head(s)>> \o InsertAsc(x, Tail(s))

RECURSIVE SortAsc(_)
\* ports.sort()
SortAsc(s) == IF s = <<>> THEN <<>> ELSE InsertAsc(Head(s), SortAsc(Tail(s)))

\* A slip: `ports.sort()` left out.
ListeningPorts_unsorted(p) ==
    IF p.net_err # "none" THEN <<>>
    ELSE CollectPorts(p.conns, <<>>)

\* The ports detect_language_server tests for process p, in order: none
\* when net_connections raises AccessDenied / NoSuchProcess (ZombieProcess
\* is a NoSuchProcess).
ListeningPorts(p) ==
    IF p.net_err # "none" THEN <<>>
    ELSE SortAsc(CollectPorts(p.conns, <<>>))

\* The process passes the three `continue` filters of the scan loop.
IsCandidate(p) ==
    /\ NameMatches(p)
    /\ HasMarker(p)
    /\ ExtractToken(p.cmdline) # ""

\* A slip: the connection names the first listening port of the process,
\* not the port whose probe succeeded.
MakeConnection_firstport(p, port) ==
    [port |-> Head(ListeningPorts(p)),
     csrf_token |-> ExtractToken(p.cmdline),
     pid |-> p.pid,
     extension_port |-> ExtractPort(p.cmdline)]

\* The connection dict built for process p on a port whose probe succeeded.
MakeConnection(p, port) ==
    [port |-> port,
     csrf_token |-> ExtractToken(p.cmdline),
     pid |-> p.pid,
     extension_port |-> ExtractPort(p.cmdline)]

\* A slip: a process that fails a filter or has no port to test ends the
\* scan (`break` for `continue`).
NextProbe_break(ps, i) ==
    IF i > Len(ps) THEN [idx |-> 0, ports |-> <<>>]
    ELSE IF IsCandidate(ps[i]) /\ ListeningPorts(ps[i]) # <<>>
         THEN [idx |-> i, ports |-> ListeningPorts(ps[i])]
         ELSE [idx |-> 0, ports |-> <<>>]

RECURSIVE NextProbe(_, _)
\* The scan loop from process index i on: the first process that passes the
\* filters and has a port to test, as [idx, ports]; idx = 0 when the
\* enumeration is exhausted.
NextProbe(ps, i) ==
    IF i > Len(ps) THEN [idx |-> 0, ports |-> <<>>]
    ELSE IF IsCandidate(ps[i]) /\ ListeningPorts(ps[i]) # <<>>
         THEN [idx |-> i, ports |-> ListeningPorts(ps[i])]
         ELSE NextProbe(ps, i + 1)

-----------------------------------------------------------------------------
(* _test_port *)

ProbeOutcomes ==
    {"network_error", "timeout", "status_500", "ok_not_json", "ok_json"}

\* mgr.client.post(...) raises
PostRaises(o) == o \in {"network_error", "timeout", "client_closed", "client_none"}

StatusCode(o) == IF o \in {"ok_json", "ok_not_json"} THEN 200 ELSE 500

\* resp.json() raises
JsonRaises(o) == o = "ok_not_json"

\* The exception the body of _test_port's try block raises on an HTTP call
\* that ends as o ("" when it raises none).
ProbeException(o) ==
    CASE o = "network_error" -> "httpx.ConnectError"
      [] o = "timeout" -> "httpx.ReadTimeout"
      [] o = "client_closed" -> "RuntimeError"
      [] o = "client_none" -> "AttributeError"
      [] o = "ok_not_json" -> "json.JSONDecodeError"
      [] OTHER -> ""

\* `except Exception` catches e: every exception above derives from Exception.
ExceptCatches(e) == e # ""

\* A slip: the handler narrowed to httpx errors.
TestPort_narrow(o) ==
    LET e == IF PostRaises(o) \/ (StatusCode(o) = 200 /\ JsonRaises(o))
             THEN ProbeException(o) ELSE ""
    IN  IF e # ""
        THEN [raised |-> e \notin {"httpx.ConnectError", "httpx.ReadTimeout"},
              ret |-> FALSE]
        ELSE [raised |-> FALSE, ret |-> StatusCode(o) = 200]

\* _test_port on an HTTP call that ends as o: what it returns, and whether
\* an exception leaves it.
TestPort(o) ==
    LET e == IF PostRaises(o) \/ (StatusCode(o) = 200 /\ JsonRaises(o))
             THEN ProbeException(o) ELSE ""
    IN  IF e # ""
        THEN [raised |-> ~ExceptCatches(e), ret |-> FALSE]
        ELSE [raised |-> FALSE, ret |-> StatusCode(o) = 200]

\* How a post on client c, to a port that would answer o, ends.
PostOutcome(c, o) ==
    IF c = NoClient THEN "client_none"
    ELSE IF c \notin open THEN "client_closed"
    ELSE o

-----------------------------------------------------------------------------
(* fetch_quota followed by parse_quota_response, as api_quota runs them *)

FetchOutcomes ==
    {"network_error", "timeout", "status_500", "ok_not_json", "ok_json",
     "ok_json_malformed"}

\* parse_quota_response raises on the body
ParseRaises(o) == o = "ok_json_malformed"

\* fetch_quota(...) then parse_quota_response(...) raise no exception.
FetchSucceeds(o) ==
    /\ ~PostRaises(o)
    /\ StatusCode(o) = 200
    /\ ~JsonRaises(o)
    /\ ~ParseRaises(o)

-----------------------------------------------------------------------------
(* The requests *)

NoCall == [op |-> "none", client |-> NoClient, wasOpen |-> FALSE, hadConn |-> FALSE]

Loc0 ==
    [attempt |-> 1, conn |-> NoneConn, idx |-> 0, ports |-> <<>>,
     cref |-> NoClient, ctx |-> "", det |-> NoneConn]

NoResp == [status |-> 0, error |-> ""]

\* No probe has succeeded.
NoProbe == [pass |-> 0, pid |-> 0, port |-> 0, token |-> ""]

\* History of one request: flog = its fetch-and-normalize attempts, TRUE for
\* one that succeeded, plog = the probes of its latest detection pass, pass
\* = that pass, detects and resets = the passes and resets it ran,
\* firstPass = the pass whose connection the first attempt used,
\* usedPass = the pass whose connection the latest get_connection returned,
\* holdsFirst = the client the cache holds is the client of its first
\* fetch (clients are never handed out twice, so once FALSE it stays so),
\* reusedClient = its second attempt took that client from the cache for a
\* probe or a fetch, closedPost = it posted on a
\* closed client, sawHalf = it read the cache in the middle of another
\* request's reset, lastProbe = outcome and result of its latest probe,
\* stable = no port changed its behaviour since its latest pass began,
\* okProbe = the probe of its latest pass that returned True: the pass,
\* the process, the port and the token sent.
Gh0 ==
    [flog |-> <<>>, resp |-> NoResp, plog |-> <<>>, pass |-> 0, firstPass |-> 0,
     usedPass |-> 0, detects |-> 0, resets |-> 0,
     holdsFirst |-> FALSE, reusedClient |-> FALSE, okProbe |-> NoProbe,
     closedPost |-> FALSE, sawHalf |-> FALSE, stable |-> TRUE,
     lastProbe |-> [o |-> "", raised |-> FALSE, ret |-> FALSE]]

\* Another request is between the steps of reset().
MidReset(t) == \E u \in Threads \ {t} : pc[u] \in {"rs_client", "rs_conn"}

cacheVars ==
    <<mgr_connection, mgr_client, open, nclients, connPass, connProbe, lastCall>>
envVars == <<procs, portResp>>
normVars == <<raw, out>>

\* api_quota is entered.
Begin(t) ==
    /\ pc[t] = "idle"
    /\ started < MaxRequests
    /\ started' = started + 1
    /\ pc' = [pc EXCEPT ![t] = "gc_check"]
    /\ loc' = [loc EXCEPT ![t] = Loc0]
    /\ gh' = [gh EXCEPT ![t] = Gh0]
    /\ UNCHANGED <<cacheVars, envVars, normVars, npass>>

\* The state of the scan once it stands at n = NextProbe(...).
ScanTo(t, n, l) ==
    IF n.idx = 0
    THEN [l EXCEPT !.det = NoneConn, !.idx = 0, !.ports = <<>>]
    ELSE [l EXCEPT !.idx = n.idx, !.ports = n.ports, !.ctx = "probe"]

\* A slip: get_connection detects without looking at the cache.
GcCheck_always(t) ==
    /\ pc[t] = "gc_check"
    /\ LET n == NextProbe(procs, 1) IN
       /\ npass' = npass + 1
       /\ loc' = [loc EXCEPT ![t] = ScanTo(t, n, loc[t])]
       /\ gh' = [gh EXCEPT ![t].pass = npass + 1,
                           ![t].detects = @ + 1,
                           ![t].plog = <<>>,
                           ![t].okProbe = NoProbe,
                           ![t].stable = TRUE,
                           ![t].sawHalf = @ \/ MidReset(t)]
       /\ pc' = [pc EXCEPT ![t] = IF n.idx = 0 THEN "gc_store" ELSE "cl_check"]
    /\ UNCHANGED <<cacheVars, envVars, normVars, started>>

\* get_connection: `if not self._connection`, and, when it is not set, the
\* scan of detect_language_server up to its first probe.
GcCheck(t) ==
    /\ pc[t] = "gc_check"
    /\ IF mgr_connection = NoneConn
       THEN LET n == NextProbe(procs, 1) IN
            /\ npass' = npass + 1
            /\ loc' = [loc EXCEPT ![t] = ScanTo(t, n, loc[t])]
            /\ gh' = [gh EXCEPT ![t].pass = npass + 1,
                                ![t].detects = @ + 1,
                                ![t].plog = <<>>,
                                ![t].okProbe = NoProbe,
                                ![t].stable = TRUE,
                                ![t].sawHalf = @ \/ MidReset(t)]
            /\ pc' = [pc EXCEPT ![t] = IF n.idx = 0 THEN "gc_store" ELSE "cl_check"]
       ELSE /\ pc' = [pc EXCEPT ![t] = "gc_return"]
            /\ gh' = [gh EXCEPT ![t].sawHalf = @ \/ MidReset(t)]
            /\ UNCHANGED <<loc, npass>>
    /\ UNCHANGED <<cacheVars, envVars, normVars, started>>

\* ConnectionManager.client: `if self._client is None`
ClCheck(t) ==
    /\ pc[t] = "cl_check"
    /\ pc' = [pc EXCEPT ![t] = IF mgr_client = NoClient THEN "cl_create" ELSE "cl_return"]
    /\ gh' = [gh EXCEPT ![t].sawHalf = @ \/ MidReset(t)]
    /\ UNCHANGED <<cacheVars, envVars, normVars, loc, npass, started>>

\* ConnectionManager.client: `self._client = httpx.Client(...)`
ClCreate(t) ==
    /\ pc[t] = "cl_create"
    /\ nclients' = nclients + 1
    /\ mgr_client' = nclients + 1
    /\ open' = open \cup {nclients + 1}
    /\ lastCall' = NoCall
    /\ pc' = [pc EXCEPT ![t] = "cl_return"]
    /\ gh' = [u \in Threads |-> [gh[u] EXCEPT !.holdsFirst = FALSE]]
    /\ UNCHANGED <<mgr_connection, connPass, connProbe, envVars, normVars, loc, npass,
                   started>>

\* ConnectionManager.client: `return self._client`
ClReturn(t) ==
    /\ pc[t] = "cl_return"
    /\ loc' = [loc EXCEPT ![t].cref = mgr_client]
    /\ pc' = [pc EXCEPT ![t] = IF loc[t].ctx = "probe" THEN "tp_post" ELSE "fq_post"]
    /\ gh' = [gh EXCEPT ![t].sawHalf = @ \/ MidReset(t),
                        ![t].reusedClient =
                            @ \/ (loc[t].attempt = 2 /\ gh[t].holdsFirst)]
    /\ UNCHANGED <<cacheVars, envVars, normVars, npass, started>>

\* _test_port on the next port of the current process, the port answering
\* o, and the step of detect_language_server that follows its result.
TpPost(t, o) ==
    /\ pc[t] = "tp_post"
    /\ LET l == loc[t]
           port == Head(l.ports)
           oc == PostOutcome(l.cref, o)
           r == TestPort(oc)
           g == [gh[t] EXCEPT
                   !.plog = Append(@, [pid |-> procs[l.idx].pid, port |-> port,
                                       ok |-> r.ret]),
                   !.okProbe = IF r.ret
                               THEN [pass |-> gh[t].pass, pid |-> procs[l.idx].pid,
                                     port |-> port,
                                     token |-> ExtractToken(procs[l.idx].cmdline)]
                               ELSE @,
                   !.closedPost = @ \/ oc = "client_closed",
                   !.lastProbe = [o |-> oc, raised |-> r.raised, ret |-> r.ret]]
       IN
       IF r.raised
       THEN /\ pc' = [pc EXCEPT ![t] = "done"]
            /\ gh' = [gh EXCEPT ![t] = [g EXCEPT !.resp =
                        [status |-> 500, error |-> "Internal Server Error"]]]
            /\ UNCHANGED loc
       ELSE IF r.ret
       THEN /\ loc' = [loc EXCEPT ![t].det = MakeConnection(procs[l.idx], port)]
            /\ gh' = [gh EXCEPT ![t] = g]
            /\ pc' = [pc EXCEPT ![t] = "gc_store"]
       ELSE IF Tail(l.ports) # <<>>
       THEN /\ loc' = [loc EXCEPT ![t].ports = Tail(l.ports)]
            /\ gh' = [gh EXCEPT ![t] = g]
            /\ pc' = [pc EXCEPT ![t] = "cl_check"]
       ELSE LET n == NextProbe(procs, l.idx + 1) IN
            /\ loc' = [loc EXCEPT ![t] = ScanTo(t, n, l)]
            /\ gh' = [gh EXCEPT ![t] = g]
            /\ pc' = [pc EXCEPT ![t] = IF n.idx = 0 THEN "gc_store" ELSE "cl_check"]
    /\ UNCHANGED <<cacheVars, envVars, normVars, npass, started>>

\* get_connection: `self._connection = detect_language_server(self)`
GcStore(t) ==
    /\ pc[t] = "gc_store"
    /\ mgr_connection' = loc[t].det
    /\ connPass' = IF loc[t].det = NoneConn THEN 0 ELSE gh[t].pass
    /\ connProbe' = IF gh[t].okProbe.pass = gh[t].pass THEN gh[t].okProbe ELSE NoProbe
    /\ lastCall' = NoCall
    /\ pc' = [pc EXCEPT ![t] = "gc_return"]
    /\ UNCHANGED <<mgr_client, open, nclients, envVars, normVars, loc, gh, npass, started>>

\* A slip: the retry's missing connection reported like the first one.
NoConnectionResponse_always503(attempt) ==
    [status |-> 503, error |-> "Language Server not found. Is Antigravity running?"]

\* The response api_quota gives when get_connection returned None.
NoConnectionResponse(attempt) ==
    IF attempt = 1
    THEN [status |-> 503, error |-> "Language Server not found. Is Antigravity running?"]
    ELSE [status |-> 500, error |-> "Quota fetch failed"]

\* get_connection: `return self._connection`, and api_quota's
\* `if not connection` on the value returned.
GcReturn(t) ==
    /\ pc[t] = "gc_return"
    /\ loc' = [loc EXCEPT ![t].conn = mgr_connection, ![t].ctx = "fetch"]
    /\ IF mgr_connection = NoneConn
       THEN /\ gh' = [gh EXCEPT ![t].resp = NoConnectionResponse(loc[t].attempt),
                                ![t].usedPass = 0,
                                ![t].sawHalf = @ \/ MidReset(t)]
            /\ pc' = [pc EXCEPT ![t] = "done"]
       ELSE /\ gh' = [gh EXCEPT ![t].usedPass = connPass,
                                ![t].firstPass =
                                    IF loc[t].attempt = 1 THEN connPass ELSE @,
                                ![t].sawHalf = @ \/ MidReset(t)]
            /\ pc' = [pc EXCEPT ![t] = "cl_check"]
    /\ UNCHANGED <<cacheVars, envVars, normVars, npass, started>>

\* fetch_quota's post and parse_quota_response on its result, the call
\* ending as o, and api_quota's handling of the exception if one is raised.
FqPost(t, o) ==
    /\ pc[t] = "fq_post"
    /\ LET oc == PostOutcome(loc[t].cref, o)
           g == [gh[t] EXCEPT !.flog = Append(@, FetchSucceeds(oc)),
                              !.holdsFirst = IF loc[t].attempt = 1
                                             THEN mgr_client = loc[t].cref ELSE @,
                              !.closedPost = @ \/ oc = "client_closed"]
       IN
       IF FetchSucceeds(oc)
       THEN /\ gh' = [gh EXCEPT ![t] = [g EXCEPT !.resp = [status |-> 200, error |-> ""]]]
            /\ pc' = [pc EXCEPT ![t] = "done"]
       ELSE IF loc[t].attempt = 1
       THEN /\ gh' = [gh EXCEPT ![t] = g]
            /\ pc' = [pc EXCEPT ![t] = "rs_check"]
       ELSE /\ gh' = [gh EXCEPT ![t] = [g EXCEPT !.resp =
                        [status |-> 500, error |-> "Quota fetch failed"]]]
            /\ pc' = [pc EXCEPT ![t] = "done"]
    /\ UNCHANGED <<cacheVars, envVars, normVars, loc, npass, started>>

\* reset: `if self._client`
RsCheck(t) ==
    /\ pc[t] = "rs_check"
    /\ pc' = [pc EXCEPT ![t] = IF mgr_client # NoClient THEN "rs_close" ELSE "rs_client"]
    /\ gh' = [gh EXCEPT ![t].sawHalf = @ \/ MidReset(t)]
    /\ UNCHANGED <<cacheVars, envVars, normVars, loc, npass, started>>

\* reset: `self._client.close()` inside try / except Exception: pass
RsClose(t) ==
    /\ pc[t] = "rs_close"
    /\ open' = open \ {mgr_client}
    /\ lastCall' = NoCall
    /\ pc' = [pc EXCEPT ![t] = "rs_client"]
    /\ UNCHANGED <<mgr_connection, mgr_client, nclients, connPass, connProbe, envVars, normVars,
                   loc, gh, npass, started>>

\* A slip: reset closes the client and goes on holding it.
RsClient_keep(t) ==
    /\ pc[t] = "rs_client"
    /\ lastCall' = NoCall
    /\ pc' = [pc EXCEPT ![t] = "rs_conn"]
    /\ UNCHANGED <<mgr_connection, mgr_client, open, nclients, connPass, connProbe, envVars,
                   normVars, loc, gh, npass, started>>

\* reset: `self._client = None`
RsClient(t) ==
    /\ pc[t] = "rs_client"
    /\ mgr_client' = NoClient
    /\ lastCall' = NoCall
    /\ pc' = [pc EXCEPT ![t] = "rs_conn"]
    /\ gh' = [u \in Threads |-> [gh[u] EXCEPT !.holdsFirst = FALSE]]
    /\ UNCHANGED <<mgr_connection, open, nclients, connPass, connProbe, envVars, normVars,
                   loc, npass, started>>

\* A slip: reset closes the client and keeps the cached connection.
RsConn_keep(t) ==
    /\ pc[t] = "rs_conn"
    /\ lastCall' = NoCall
    /\ loc' = [loc EXCEPT ![t].attempt = 2]
    /\ gh' = [gh EXCEPT ![t].resets = @ + 1]
    /\ pc' = [pc EXCEPT ![t] = "gc_check"]
    /\ UNCHANGED <<mgr_connection, connPass, connProbe, mgr_client, open, nclients, envVars,
                   normVars, npass, started>>

\* reset: `self._connection = None`; api_quota goes on to its second
\* get_connection.
RsConn(t) ==
    /\ pc[t] = "rs_conn"
    /\ mgr_connection' = NoneConn
    /\ connPass' = 0
    /\ connProbe' = NoProbe
    /\ lastCall' = NoCall
    /\ loc' = [loc EXCEPT ![t].attempt = 2]
    /\ gh' = [gh EXCEPT ![t].resets = @ + 1]
    /\ pc' = [pc EXCEPT ![t] = "gc_check"]
    /\ UNCHANGED <<mgr_client, open, nclients, envVars, normVars, npass, started>>

\* The response has been sent and the request's thread ends.
Finish(t) ==
    /\ pc[t] = "done"
    /\ pc' = [pc EXCEPT ![t] = "exited"]
    /\ loc' = [loc EXCEPT ![t] = Loc0]
    /\ gh' = [gh EXCEPT ![t] = Gh0]
    /\ UNCHANGED <<cacheVars, envVars, normVars, npass, started>>

\* The server starts a thread for the next request.
NewThread(t) ==
    /\ pc[t] = "exited"
    /\ pc' = [pc EXCEPT ![t] = "idle"]
    /\ UNCHANGED <<cacheVars, envVars, normVars, loc, gh, npass, started>>

AllDown == [p \in PortSet |-> "network_error"]

\* The Language Server exits: its ports stop answering.
ServerDown ==
    /\ portResp # AllDown
    /\ portResp' = AllDown
    /\ gh' = [t \in Threads |-> [gh[t] EXCEPT !.stable = FALSE]]
    /\ UNCHANGED <<cacheVars, procs, normVars, pc, loc, npass, started>>

\* A slip: invalidate also tears the client down, as reset does.
InvalidateConnection_teardown ==
    /\ mgr_connection' = NoneConn
    /\ connPass' = 0
    /\ connProbe' = NoProbe
    /\ open' = open \ {mgr_client}
    /\ mgr_client' = NoClient
    /\ lastCall' = [op |-> "invalidate", client |-> mgr_client,
                    wasOpen |-> mgr_client \in open,
                    hadConn |-> mgr_connection # NoneConn]
    /\ UNCHANGED <<nclients, envVars, normVars, pc, loc, gh, npass, started>>

\* ConnectionManager.invalidate_connection
InvalidateConnection ==
    /\ mgr_connection' = NoneConn
    /\ connPass' = 0
    /\ connProbe' = NoProbe
    /\ lastCall' = [op |-> "invalidate", client |-> mgr_client,
                    wasOpen |-> mgr_client \in open,
                    hadConn |-> mgr_connection # NoneConn]
    /\ UNCHANGED <<mgr_client, open, nclients, envVars, normVars, pc, loc, gh,
                   npass, started>>

-----------------------------------------------------------------------------
(* JSON values of the raw response *)

\* A missing key or a JSON null: Python None.
JNone == [kind |-> "none", val |-> 0]
JInt(n) == [kind |-> "int", val |-> n]
\* A JSON number with a fraction part or exponent; val in units of 0.0001.
JFloat(v) == [kind |-> "float", val |-> v]
\* A JSON string holding the decimal integer n.
JStr(n) == [kind |-> "str", val |-> n]

\* `not x`
Falsy(x) == x.kind = "none" \/ (x.kind \in {"int", "float"} /\ x.val = 0)

\* int(x), for an int or a decimal string
IntOf(x) == x.val

-----------------------------------------------------------------------------
(* Float arithmetic: the binary64 values behind round(x * 100, 1) *)

\* A natural number of any size: its digits in base 1024, the least
\* significant first, without a leading zero digit; <<>> is 0.

RECURSIVE BigTrim(_)
BigTrim(x) ==
    IF x # <<>> /\ x[Len(x)] = 0 THEN BigTrim(SubSeq(x, 1, Len(x) - 1)) ELSE x

RECURSIVE BigOfNat(_)
BigOfNat(n) == IF n = 0 THEN <<>> ELSE <<n % 1024>> \o BigOfNat(n \div 1024)

RECURSIVE BigToNat(_)
BigToNat(x) == IF x = <<>> THEN 0 ELSE Head(x) + 1024 * BigToNat(Tail(x))

RECURSIVE BigMulCarry(_, _, _)
\* x * k + carry, for k below 2^20.
BigMulCarry(x, k, carry) ==
    IF x = <<>> THEN BigOfNat(carry)
    ELSE LET v == Head(x) * k + carry
         IN  <<v % 1024>> \o BigMulCarry(Tail(x), k, v \div 1024)

BigMulSmall(x, k) == BigTrim(BigMulCarry(x, k, 0))

RECURSIVE BigDivRem(_, _, _)
\* Long division of r * 1024^Len(x) + x by d, for d up to 2^20 and r < d.
BigDivRem(x, d, r) ==
    IF x = <<>> THEN [q |-> <<>>, r |-> r]
    ELSE LET v == r * 1024 + x[Len(x)]
             rest == BigDivRem(SubSeq(x, 1, Len(x) - 1), d, v % d)
         IN  [q |-> Append(rest.q, v \div d), r |-> rest.r]

\* Quotient and remainder of x by d.
BigDivSmall(x, d) ==
    LET res == BigDivRem(x, d, 0) IN [q |-> BigTrim(res.q), r |-> res.r]

RECURSIVE BigAddCarry(_, _, _)
BigAddCarry(x, y, c) ==
    IF x = <<>> /\ y = <<>> THEN BigOfNat(c)
    ELSE LET v == (IF x = <<>> THEN 0 ELSE Head(x))
                  + (IF y = <<>> THEN 0 ELSE Head(y)) + c
         IN  <<v % 1024>> \o BigAddCarry(IF x = <<>> THEN <<>> ELSE Tail(x),
                                         IF y = <<>> THEN <<>> ELSE Tail(y),
                                         v \div 1024)

BigAdd(x, y) == BigAddCarry(x, y, 0)

RECURSIVE BigSubBorrow(_, _, _)
\* x - y - b, for x >= y + b.
BigSubBorrow(x, y, b) ==
    IF x = <<>> THEN <<>>
    ELSE LET v == Head(x) - (IF y = <<>> THEN 0 ELSE Head(y)) - b
         IN  <<IF v < 0 THEN v + 1024 ELSE v>>
             \o BigSubBorrow(Tail(x), IF y = <<>> THEN <<>> ELSE Tail(y),
                             IF v < 0 THEN 1 ELSE 0)

BigSub(x, y) == BigTrim(BigSubBorrow(x, y, 0))

RECURSIVE BigCmp(_, _)
\* -1, 0 or 1 as x is below, equal to or above y.
BigCmp(x, y) ==
    IF Len(x) # Len(y) THEN (IF Len(x) < Len(y) THEN -1 ELSE 1)
    ELSE IF x = <<>> THEN 0
    ELSE IF x[Len(x)] # y[Len(y)] THEN (IF x[Len(x)] < y[Len(y)] THEN -1 ELSE 1)
    ELSE BigCmp(SubSeq(x, 1, Len(x) - 1), SubSeq(y, 1, Len(y) - 1))

BigOdd(x) == x # <<>> /\ Head(x) % 2 = 1

RECURSIVE Pow2(_)
Pow2(k) == IF k = 0 THEN 1 ELSE 2 * Pow2(k - 1)

RECURSIVE BitLen(_)
\* The number of binary digits of the machine integer n.
BitLen(n) == IF n = 0 THEN 0 ELSE 1 + BitLen(n \div 2)

BigBitLen(x) == IF x = <<>> THEN 0 ELSE 10 * (Len(x) - 1) + BitLen(x[Len(x)])

RECURSIVE Zeros(_)
Zeros(n) == IF n = 0 THEN <<>> ELSE <<0>> \o Zeros(n - 1)

\* x * 2^k
BigShl(x, k) ==
    IF x = <<>> THEN <<>> ELSE Zeros(k \div 10) \o BigMulSmall(x, Pow2(k % 10))

\* x \div 2^k
BigShr(x, k) ==
    IF k \div 10 >= Len(x) THEN <<>>
    ELSE BigDivSmall(SubSeq(x, k \div 10 + 1, Len(x)), Pow2(k % 10)).q

\* x / 2^k rounded to the nearest integer; an exact half goes up when
\* `above` (something was cut off x before) and to the even one otherwise.
BigShrNearest(x, k, above) ==
    LET q == BigShr(x, k)
        c == BigCmp(BigSub(x, BigShl(q, k)), BigShl(<<1>>, k - 1))
    IN  IF c > 0 \/ (c = 0 /\ (above \/ BigOdd(q))) THEN BigAdd(q, <<1>>) ELSE q

\* A binary64 value: (-1)^neg * m * 2^e, with m of at most 53 bits (2^53
\* itself stands for the carry out of a rounding).
FZero == [neg |-> FALSE, m |-> <<>>, e |-> 0]

\* The binary64 nearest to q * 2^e, or to a value just above it when
\* `above`: round-half-even at 53 significant bits, as the hardware does.
\* The values of the model stay clear of overflow and of subnormals.
FRound(neg, q, e, above) ==
    LET s == BigBitLen(q) - 53 IN
    IF s <= 0 THEN [neg |-> neg, m |-> q, e |-> e]
    ELSE [neg |-> neg, m |-> BigShrNearest(q, s, above), e |-> e + s]

\* a / b of two Python ints (b # 0, up to 2^20 in size), which is also the
\* value json.loads gives the decimal literal a/b: the nearest binary64.
FDiv(a, b) ==
    IF a = 0 THEN FZero
    ELSE LET d == BigDivSmall(BigShl(BigOfNat(IF a < 0 THEN -a ELSE a), 80),
                              IF b < 0 THEN -b ELSE b)
         IN  FRound((a < 0) # (b < 0), d.q, -80, d.r # 0)

\* x * 100
FMul100(x) == FRound(x.neg, BigMulSmall(x.m, 100), x.e, FALSE)

\* 1 - x, for x = 0 or x.e < 0.
FOneMinus(x) ==
    IF x.m = <<>> THEN [neg |-> FALSE, m |-> <<1>>, e |-> 0]
    ELSE LET one == BigShl(<<1>>, -x.e) IN
         IF x.neg THEN FRound(FALSE, BigAdd(one, x.m), x.e, FALSE)
         ELSE IF BigCmp(one, x.m) >= 0
              THEN FRound(FALSE, BigSub(one, x.m), x.e, FALSE)
              ELSE FRound(TRUE, BigSub(x.m, one), x.e, FALSE)

\* round(x, 1) in tenths: the exact value of the binary64 x rounded to one
\* decimal, an exact half to the even digit.
FRoundTenths(x) ==
    LET t == BigMulSmall(x.m, 10)
        n == IF x.e >= 0 THEN BigToNat(BigShl(t, x.e))
             ELSE BigToNat(BigShrNearest(t, -x.e, FALSE))
    IN  IF x.neg THEN -n ELSE n

\* round(a / b * 100, 1), in tenths.
PercentTenths(a, b) == FRoundTenths(FMul100(FDiv(a, b)))

\* The binary64 of a remainingFraction that is a JSON float.
FloatOf(f) == FDiv(f.val, 10000)

\* round(remaining_fraction * 100, 1), in tenths; an int stays an int.
RemainingTenths(f) ==
    IF f.kind = "int" THEN 1000 * f.val
    ELSE FRoundTenths(FMul100(FloatOf(f)))

\* round((1 - remaining_fraction) * 100, 1), in tenths.
UsedTenths(f) ==
    IF f.kind = "int" THEN 1000 * (1 - f.val)
    ELSE FRoundTenths(FMul100(FOneMinus(FloatOf(f))))

-----------------------------------------------------------------------------
(* _parse_credit_block *)

NoBlock == [none |-> TRUE]

\* A slip: `not available_raw` in place of `available_raw is None`.
ParseCreditBlock_falsy(monthly_raw, available_raw) ==
    IF Falsy(monthly_raw) \/ Falsy(available_raw) THEN NoBlock
    ELSE LET monthly == IntOf(monthly_raw)
             available == IntOf(available_raw)
             used == monthly - available
         IN  IF monthly = 0 THEN NoBlock
             ELSE [available |-> available,
                   monthly |-> monthly,
                   used |-> used,
                   used_percentage |-> PercentTenths(used, monthly),
                   remaining_percentage |-> PercentTenths(available, monthly)]

ParseCreditBlock(monthly_raw, available_raw) ==
    IF Falsy(monthly_raw) \/ available_raw.kind = "none" THEN NoBlock
    ELSE LET monthly == IntOf(monthly_raw)
             available == IntOf(available_raw)
             used == monthly - available
         IN  IF monthly = 0 THEN NoBlock
             ELSE [available |-> available,
                   monthly |-> monthly,
                   used |-> used,
                   used_percentage |-> PercentTenths(used, monthly),
                   remaining_percentage |-> PercentTenths(available, monthly)]

-----------------------------------------------------------------------------
(* parse_quota_response: the model list *)

\* A percentage that is None.
NoPct == [kind |-> "none", val |-> 0]
Pct(tenths) == [kind |-> "pct", val |-> tenths]

\* The value of a remainingFraction in units of 0.0001.
FractionValue(f) == IF f.kind = "int" THEN 10000 * f.val ELSE f.val

\* datetime.fromisoformat(s.replace("Z", "+00:00")) as milliseconds since
\* 2026-01-01T00:00:00Z, for the texts the model uses; ok = FALSE when it
\* raises.
ParseIso(s) ==
    CASE s = "2026-01-01T00:00:00Z" -> [ok |-> TRUE, ms |-> 0]
      [] s = "2026-01-01T06:00:00Z" -> [ok |-> TRUE, ms |-> 21600000]
      [] s = "tomorrow" -> [ok |-> FALSE, ms |-> 0]
      [] s = "" -> [ok |-> FALSE, ms |-> 0]
      [] OTHER -> [ok |-> FALSE, ms |-> 0]

\* The try / except around the reset time: 0 when the text does not parse.
TimeUntilReset(reset_time_str, now) ==
    IF ParseIso(reset_time_str).ok THEN ParseIso(reset_time_str).ms - now ELSE 0

\* `not quota_info`: the entry has no quotaInfo key, or its value is null
\* or the empty object.
QuotaInfoFalsy(m) == m.quotaInfo \in {"absent", "null", "empty"}

\* The dict appended to `models` for a raw entry m whose quotaInfo is a
\* non-empty object.
ParseModel(m, now) ==
    LET f == m.remainingFraction IN
    [label |-> IF m.hasLabel THEN m.label ELSE "Unknown",
     model_id |-> m.model,
     remaining_fraction |-> f,
     remaining_percentage |->
         IF f.kind # "none" THEN Pct(RemainingTenths(f)) ELSE NoPct,
     used_percentage |->
         IF f.kind # "none" THEN Pct(UsedTenths(f)) ELSE NoPct,
     is_exhausted |-> IF f.kind # "none" THEN FractionValue(f) = 0 ELSE FALSE,
     reset_time_iso |-> m.resetTime,
     time_until_reset_ms |-> TimeUntilReset(m.resetTime, now)]

RECURSIVE ParseModels(_, _)
\* The loop over raw_models: entries whose quotaInfo is absent, null or
\* empty are skipped.
ParseModels(raw_models, now) ==
    IF raw_models = <<>> THEN <<>>
    ELSE IF QuotaInfoFalsy(Head(raw_models)) THEN ParseModels(Tail(raw_models), now)
    ELSE <<ParseModel(Head(raw_models), now)>> \o ParseModels(Tail(raw_models), now)

\* `x["used_percentage"] or 0`, in tenths
UsedOrZero(x) == IF x.used_percentage.kind = "none" THEN 0 ELSE x.used_percentage.val

\* A slip: the used percentage not negated, so the least used comes first.
QuotaSortKey_ascending(x) ==
    <<IF x.is_exhausted THEN 0 ELSE 1, UsedOrZero(x)>>

\* _quota_sort_key: (not is_exhausted, -(used_percentage or 0)), False as 0.
QuotaSortKey(x) ==
    <<IF x.is_exhausted THEN 0 ELSE 1, -UsedOrZero(x)>>

\* Tuple comparison k1 < k2
KeyLess(k1, k2) == k1[1] < k2[1] \/ (k1[1] = k2[1] /\ k1[2] < k2[2])

RECURSIVE InsertByKey(_, _)
\* x put into the sorted list s after every element whose key is not
\* greater than its own.
InsertByKey(x, s) ==
    IF s = <<>> THEN <<x>>
    ELSE IF KeyLess(QuotaSortKey(x), QuotaSortKey(Head(s))) THEN <<x>> \o s
    ELSE <<Head(s)>> \o InsertByKey(x, Tail(s))

RECURSIVE SortInto(_, _)
SortInto(s, acc) ==
    IF s = <<>> THEN acc ELSE SortInto(Tail(s), InsertByKey(Head(s), acc))

\* list.sort(key=_quota_sort_key): stable.
SortByQuotaKey(s) == SortInto(s, <<>>)

-----------------------------------------------------------------------------
(* _derive_pool_name *)

\* `"claude" in label.lower()`, and so on, for the labels the model uses.
HasClaude(label) == label \in {"Claude Opus", "Claude Sonnet", "claude-gpt mix"}
HasGemini(label) == label \in {"Gemini Pro", "Gemini Flash"}
HasGpt(label) == label \in {"GPT-4o", "claude-gpt mix"}

\* label.split()[0], for the labels the model uses.
FirstToken(label) ==
    CASE label = "Llama 3" -> "Llama"
      [] label = "Qwen 2" -> "Qwen"
      [] label = "Mistral Large" -> "Mistral"
      [] label = "o3" -> "o3"
      [] label = "Unknown" -> "Unknown"
      [] label = "Claude Opus" -> "Claude"
      [] label = "Claude Sonnet" -> "Claude"
      [] label = "claude-gpt mix" -> "claude-gpt"
      [] label = "Gemini Pro" -> "Gemini"
      [] label = "Gemini Flash" -> "Gemini"
      [] label = "GPT-4o" -> "GPT-4o"
      [] OTHER -> label

FamilyOf(label) ==
    IF HasClaude(label) THEN "Claude"
    ELSE IF HasGemini(label) THEN "Gemini"
    ELSE IF HasGpt(label) THEN "GPT"
    ELSE FirstToken(label)

\* Position of a family name in Python's string order (by code point: a
\* prefix first, every capital before every small letter), for the family
\* names the model's labels give.
FamilyRank(f) ==
    CASE f = "" -> 0
      [] f = "Claude" -> 1
      [] f = "GPT" -> 2
      [] f = "GPT-4o" -> 3
      [] f = "Gemini" -> 4
      [] f = "Llama" -> 5
      [] f = "Mistral" -> 6
      [] f = "Qwen" -> 7
      [] f = "Unknown" -> 8
      [] f = "claude-gpt" -> 9
      [] f = "o3" -> 10

RECURSIVE SortedFamilies(_)
\* sorted(families)
SortedFamilies(fs) ==
    IF fs = {} THEN <<>>
    ELSE LET f == CHOOSE x \in fs : \A y \in fs : FamilyRank(x) <= FamilyRank(y)
         IN  <<f>> \o SortedFamilies(fs \ {f})

RECURSIVE JoinFamilies(_)
\* " / ".join(family_list)
JoinFamilies(fl) ==
    IF Len(fl) = 1 THEN fl[1]
    ELSE fl[1] \o " / " \o JoinFamilies(Tail(fl))

DerivePoolName(labels) ==
    IF Len(labels) = 1 THEN labels[1]
    ELSE LET families == {FamilyOf(labels[i]) : i \in 1..Len(labels)} IN
         IF Cardinality(families) = 1
         THEN (CHOOSE f \in families : TRUE) \o " Models"
         ELSE IF Cardinality(families) <= 3
         THEN JoinFamilies(SortedFamilies(families)) \o " Models"
         ELSE "Premium Models"

-----------------------------------------------------------------------------
(* parse_quota_response: pools and the report *)

\* str(remaining_fraction) as the f-string formats it: "None", an int
\* without a point ("0"), a float with one ("0.0"); two fractions have the
\* same text exactly when they have the same kind and value.
FractionText(f) == <<f.kind, f.val>>

\* pool_key = f"{m['reset_time_iso']}|{m['remaining_fraction']}"
PoolKey(m) == <<m.reset_time_iso, FractionText(m.remaining_fraction)>>

RECURSIVE PoolKeysInOrder(_, _)
\* The keys of pool_map in insertion order: each key at its first model.
PoolKeysInOrder(models, seen) ==
    IF models = <<>> THEN seen
    ELSE IF \E i \in 1..Len(seen) : seen[i] = PoolKey(Head(models))
         THEN PoolKeysInOrder(Tail(models), seen)
         ELSE PoolKeysInOrder(Tail(models), Append(seen, PoolKey(Head(models))))

\* pool_map[key]: the models of that key, in the order of `models`.
PoolModels(models, key) == SelectSeq(models, LAMBDA m : PoolKey(m) = key)

\* The dict appended to `pools` for the models of one key.
MakePool(pool_models) ==
    LET first == pool_models[1] IN
    [name |-> DerivePoolName([i \in 1..Len(pool_models) |-> pool_models[i].label]),
     models |-> pool_models,
     model_count |-> Len(pool_models),
     remaining_fraction |-> first.remaining_fraction,
     remaining_percentage |-> first.remaining_percentage,
     used_percentage |-> first.used_percentage,
     is_exhausted |-> first.is_exhausted,
     reset_time_iso |-> first.reset_time_iso,
     time_until_reset_ms |-> first.time_until_reset_ms]

\* parse_quota_response
ParseQuotaResponse(data) ==
    LET models == SortByQuotaKey(ParseModels(data.models, data.now))
        keys == PoolKeysInOrder(models, <<>>)
        pools == [i \in 1..Len(keys) |-> MakePool(PoolModels(models, keys[i]))]
    IN  [prompt_credits |-> ParseCreditBlock(data.monthlyPromptCredits,
                                             data.availablePromptCredits),
         flow_credits |-> ParseCreditBlock(data.monthlyFlowCredits,
                                           data.availableFlowCredits),
         models |-> models,
         pools |-> SortByQuotaKey(pools)]

\* round(remaining_fraction * 100, 1) raises TypeError: the fraction is a
\* JSON string (str * 100 is a str, which has no __round__).
ModelRaises(m) == m.remainingFraction.kind = "str"

\* _derive_pool_name raises IndexError: several labels, and one that matches
\* no family has no token, so label.split()[0] fails.
NameRaises(labels) ==
    /\ Len(labels) # 1
    /\ \E i \in 1..Len(labels) :
          /\ ~HasClaude(labels[i]) /\ ~HasGemini(labels[i]) /\ ~HasGpt(labels[i])
          /\ labels[i] = ""

\* parse_quota_response raises instead of returning a report.
ParseQuotaResponseRaises(data) ==
    \/ \E i \in 1..Len(data.models) :
          ~QuotaInfoFalsy(data.models[i]) /\ ModelRaises(data.models[i])
    \/ LET models == SortByQuotaKey(ParseModels(data.models, data.now))
           keys == PoolKeysInOrder(models, <<>>)
       IN  \E k \in 1..Len(keys) :
              LET pm == PoolModels(models, keys[k])
              IN  NameRaises([i \in 1..Len(pm) |-> pm[i].label])

NoReport == [none |-> TRUE]

-----------------------------------------------------------------------------
(* The environment: processes and ports *)

LsPath == "/opt/ag/bin/language_server_linux"

Listen(port) == [status |-> "LISTEN", port |-> port]
Established(port) == [status |-> "ESTABLISHED", port |-> port]

\* Not the Language Server, though its command line has both flags.
POther ==
    [pid |-> 10, name |-> "python3",
     cmdline |-> <<Arg("python3"), ArgEq(MarkerFlag, "42"), ArgEq(TokenFlag, "tokA")>>,
     conns |-> <<Listen(1)>>, net_err |-> "none"]

\* The Language Server started without --extension_server_port.
PNoMarker ==
    [pid |-> 11, name |-> LsName,
     cmdline |-> <<Arg(LsPath), ArgEq(TokenFlag, "tokA")>>,
     conns |-> <<Listen(1)>>, net_err |-> "none"]

\* --csrf_token is the last argument and has no value.
PNoToken ==
    [pid |-> 12, name |-> LsName,
     cmdline |-> <<Arg(LsPath), ArgEq(MarkerFlag, "42"), Arg(TokenFlag)>>,
     conns |-> <<Listen(1)>>, net_err |-> "none"]

\* Flags given as --flag=value, the token all digits; sockets enumerated
\* unsorted, one twice.
PGoodA ==
    [pid |-> 13, name |-> LsName,
     cmdline |-> <<Arg(LsPath), ArgEq(MarkerFlag, "42"), ArgEq(TokenFlag, "9001")>>,
     conns |-> <<Listen(2), Established(3), Listen(1), Listen(2)>>,
     net_err |-> "none"]

\* psutil gives no name; flags given as "--flag value", the port flag bare.
PGoodB ==
    [pid |-> 14, name |-> "",
     cmdline |-> <<Arg(LsPath), Arg(MarkerFlag), Arg(TokenFlag), Arg("tok-B")>>,
     conns |-> <<Established(1), Listen(3)>>, net_err |-> "none"]

\* net_connections raises AccessDenied.
PDenied ==
    [pid |-> 15, name |-> LsName,
     cmdline |-> <<Arg(LsPath), ArgEq(MarkerFlag, "9001"), ArgEq(TokenFlag, "tokA")>>,
     conns |-> <<Listen(1)>>, net_err |-> "AccessDenied"]

\* net_connections raises ZombieProcess, a NoSuchProcess.
PZombie ==
    [pid |-> 17, name |-> LsName,
     cmdline |-> <<Arg(LsPath), ArgEq(MarkerFlag, "42"), ArgEq(TokenFlag, "tokA")>>,
     conns |-> <<Listen(1)>>, net_err |-> "ZombieProcess"]

ProcPool == {POther, PNoMarker, PNoToken, PGoodA, PGoodB, PDenied, PZombie}

RECURSIVE SeqsUpTo(_, _)
\* The sequences of at most n distinct elements of S.
SeqsUpTo(S, n) ==
    IF n = 0 THEN {<<>>}
    ELSE LET shorter == SeqsUpTo(S, n - 1) IN
         shorter \cup
         UNION {{Append(q, x) : x \in {y \in S : \A i \in 1..Len(q) : q[i] # y}} :
                    q \in {r \in shorter : Len(r) = n - 1}}

ProcLists == SeqsUpTo(ProcPool, MaxProcs)

\* How the three ports may answer a probe.
ProbeEnvs ==
    {f \in [PortSet -> ProbeOutcomes] :
        /\ f[2] \in {"ok_json", "ok_not_json", "status_500"}
        /\ f[3] \in {"ok_json", "timeout"}}

\* The Language Server with one listening socket.
PGoodC ==
    [pid |-> 16, name |-> LsName,
     cmdline |-> <<Arg(LsPath), ArgEq(MarkerFlag, "42"), ArgEq(TokenFlag, "tokA")>>,
     conns |-> <<Listen(3)>>, net_err |-> "none"]

\* The processes of the concurrent runs.
ServerProcs == <<PNoToken, PGoodC>>
ServerProbeOutcomes == {"ok_json", "network_error"}

-----------------------------------------------------------------------------
(* The environment: raw responses *)

MaxModels == 3

T1 == "2026-01-01T00:00:00Z"
T2 == "2026-01-01T06:00:00Z"

\* An entry of clientModelConfigs whose quotaInfo is a non-empty object.  In
\* it a remainingFraction of JNone is the key left out or null, and a
\* resetTime of "" is the key left out or the empty text: .get reads the two
\* alike.  The object with both keys left out and nothing else in it is not
\* of this kind: it is the "empty" quotaInfo.
RawModel(label, model, f, reset) ==
    [label |-> label, hasLabel |-> TRUE, model |-> model, quotaInfo |-> "object",
     remainingFraction |-> f, resetTime |-> reset]

\* An entry whose quotaInfo is "absent" (no such key), "null" or "empty" ({}).
RawModelWithout(label, model, kind) ==
    [RawModel(label, model, JNone, "") EXCEPT !.quotaInfo = kind]

\* 0.1235 is 12.35 % left and 87.65 % used: both halfway between two tenths.
RawModelPool ==
    {RawModel("Claude Opus", "m1", JFloat(1235), T1),
     RawModel("Claude Sonnet", "m2", JFloat(1235), T1),
     RawModel("Gemini Pro", "m3", JInt(0), T1),
     RawModel("GPT-4o", "m4", JFloat(0), T1),
     RawModel("Llama 3", "m5", JNone, ""),
     RawModel("Qwen 2", "m6", JNone, ""),
     RawModelWithout("Mistral Large", "m7", "absent"),
     RawModel("Gemini Flash", "m8", JFloat(3333), T2),
     RawModel("o3", "m9", JFloat(3334), T2),
     RawModelWithout("Mistral Large", "m11", "empty")}

\* 25 and 1 of 2000 are 1.25 % and 0.05 %: halfway between two tenths, the
\* first exactly so in binary and the second not.
MonthlyValues == {JNone, JInt(0), JInt(100), JInt(3), JInt(2000), JStr(0), JStr(100)}
AvailableValues == {JNone, JInt(0), JInt(1), JInt(25), JInt(150), JStr(25)}

RawResponse(mp, ap, mf, af, models) ==
    [monthlyPromptCredits |-> mp, availablePromptCredits |-> ap,
     monthlyFlowCredits |-> mf, availableFlowCredits |-> af,
     models |-> models, now |-> 3600000]

\* Responses that vary the credits, and responses that vary the models.
RawResponses ==
    {RawResponse(mp, ap, fl[1], fl[2], <<>>) :
        mp \in MonthlyValues, ap \in AvailableValues,
        fl \in {<<JNone, JNone>>, <<JInt(100), JInt(0)>>, <<JInt(0), JInt(25)>>,
                <<JInt(3), JNone>>}}
    \cup
    {RawResponse(JNone, JNone, JNone, JNone, ms) :
        ms \in SeqsUpTo(RawModelPool, MaxModels)}

NoRaw == [none |-> TRUE]
NoOut == [done |-> FALSE]

\* parse_quota_response applied to the raw response.
Normalize ==
    /\ ~out.done
    /\ out' = [done |-> TRUE,
               raised |-> ParseQuotaResponseRaises(raw),
               report |-> IF ParseQuotaResponseRaises(raw) THEN NoReport
                          ELSE ParseQuotaResponse(raw)]
    /\ UNCHANGED <<cacheVars, envVars, pc, loc, gh, npass, started, raw>>

-----------------------------------------------------------------------------
(* Specifications *)

InitCache ==
    /\ mgr_connection = NoneConn
    /\ mgr_client = NoClient
    /\ open = {}
    /\ nclients = 0
    /\ connPass = 0
    /\ connProbe = NoProbe
    /\ npass = 0
    /\ started = 0
    /\ lastCall = NoCall
    /\ pc = [t \in Threads |-> "idle"]
    /\ loc = [t \in Threads |-> Loc0]
    /\ gh = [t \in Threads |-> Gh0]

\* Two requests, each on a thread of its own (the Flask server runs
\* threaded), in any interleaving, with invalidate_connection called at any
\* moment.
Init ==
    /\ InitCache
    /\ procs = ServerProcs
    /\ portResp = [p \in PortSet |-> "ok_json"]
    /\ raw = NoRaw
    /\ out = NoOut

Next ==
    \/ \E t \in Threads :
          \/ Begin(t)
          \/ GcCheck(t)
          \/ ClCheck(t)
          \/ ClCreate(t)
          \/ ClReturn(t)
          \/ \E o \in ServerProbeOutcomes : TpPost(t, o)
          \/ GcStore(t)
          \/ GcReturn(t)
          \/ \E o \in FetchOutcomes : FqPost(t, o)
          \/ RsCheck(t)
          \/ RsClose(t)
          \/ RsClient(t)
          \/ RsConn(t)
          \/ Finish(t)
    \/ InvalidateConnection

Spec == Init /\ [][Next]_vars

\* Requests served one at a time, over any process list and port behaviour.
InitSeq ==
    /\ InitCache
    /\ procs \in ProcLists
    /\ portResp \in ProbeEnvs
    /\ raw = NoRaw
    /\ out = NoOut

SeqThread == "t1"

NextSeq ==
    \/ Begin(SeqThread)
    \/ GcCheck(SeqThread)
    \/ ClCheck(SeqThread)
    \/ ClCreate(SeqThread)
    \/ ClReturn(SeqThread)
    \/ TpPost(SeqThread, portResp[Head(loc[SeqThread].ports)])
    \/ GcStore(SeqThread)
    \/ GcReturn(SeqThread)
    \/ \E o \in FetchOutcomes : FqPost(SeqThread, o)
    \/ RsCheck(SeqThread)
    \/ RsClose(SeqThread)
    \/ RsClient(SeqThread)
    \/ RsConn(SeqThread)
    \/ Finish(SeqThread)
    \/ NewThread(SeqThread)
    \/ (pc[SeqThread] = "idle" /\ lastCall.op # "invalidate" /\ InvalidateConnection)
    \/ ServerDown

SpecSeq == InitSeq /\ [][NextSeq]_vars

\* The normaliser alone, over the raw responses.
InitNorm ==
    /\ InitCache
    /\ procs = <<>>
    /\ portResp = AllDown
    /\ raw \in RawResponses
    /\ out = NoOut

NextNorm == Normalize

SpecNorm == InitNorm /\ [][NextNorm]_vars

-----------------------------------------------------------------------------
(* The normaliser on responses in which one model entry is bad *)

\* Well-formed entries.
GoodEntries ==
    {RawModel("Claude Opus", "m1", JFloat(5000), T1),
     RawModel("Claude Sonnet", "m2", JFloat(5000), T1),
     RawModel("Gemini Pro", "m3", JInt(0), T1),
     RawModel("Gemini Flash", "m8", JFloat(3333), T2),
     RawModel("GPT-4o", "m10", JInt(1), T2)}

\* Entries with one sub-field missing or malformed: remainingFraction a
\* string, resetTime not a date, resetTime missing, label missing, label
\* empty.
BadEntries ==
    {RawModel("Llama 3", "b1", JStr(0), T1),
     RawModel("Qwen 2", "b2", JFloat(5000), "tomorrow"),
     RawModel("o3", "b3", JFloat(5000), ""),
     [RawModel("", "b4", JFloat(5000), T1) EXCEPT !.hasLabel = FALSE],
     RawModel("", "b5", JFloat(5000), T1)}

\* s with x put in at position k
InsertAt(s, k, x) == SubSeq(s, 1, k - 1) \o <<x>> \o SubSeq(s, k, Len(s))

\* The response whose model list is gs with the bad entry b at position k.
EntryResponse(gs, k, b) ==
    [monthlyPromptCredits |-> JNone, availablePromptCredits |-> JNone,
     monthlyFlowCredits |-> JNone, availableFlowCredits |-> JNone,
     models |-> InsertAt(gs, k, b), now |-> 3600000, bad |-> k]

\* Responses with one bad entry, at position `bad`, among well-formed ones.
EntryResponses ==
    UNION {{EntryResponse(gs, k, b) : k \in 1..(Len(gs) + 1), b \in BadEntries} :
              gs \in SeqsUpTo(GoodEntries, MaxModels - 1)}

InitEntry ==
    /\ InitCache
    /\ procs = <<>>
    /\ portResp = AllDown
    /\ raw \in EntryResponses
    /\ out = NoOut

NextEntry == Normalize

SpecEntry == InitEntry /\ [][NextEntry]_vars

-----------------------------------------------------------------------------
(* The pool name alone, over lists of labels *)

MaxLabels == 4

\* The labels the name derivation is run on.
LabelSet ==
    {"Claude Opus", "Claude Sonnet", "claude-gpt mix", "Gemini Pro", "Gemini Flash",
     "GPT-4o", "Llama 3", "Qwen 2", "o3", "Unknown"}

\* The label lists of a pool: at least one label.
LabelLists == SeqsUpTo(LabelSet, MaxLabels) \ {<<>>}

NoName == [done |-> FALSE]

\* _derive_pool_name applied to the labels of a pool.
DeriveName ==
    /\ ~out.done
    /\ out' = [done |-> TRUE, name |-> DerivePoolName(raw.labels)]
    /\ UNCHANGED <<cacheVars, envVars, pc, loc, gh, npass, started, raw>>

InitName ==
    /\ InitCache
    /\ procs = <<>>
    /\ portResp = AllDown
    /\ raw \in {[labels |-> ls] : ls \in LabelLists}
    /\ out = NoName

NextName == DeriveName

SpecName == InitName /\ [][NextName]_vars

-----------------------------------------------------------------------------
(* Claims *)

\* The typed outcome of a response of api_quota.
Outcome(resp) ==
    CASE resp.status = 200 -> "Succeeded"
      [] resp.status = 503 -> "NotFound"
      [] resp.status = 500 /\ resp.error = "Quota fetch failed" -> "RemoteError"
      [] OTHER -> "none"

\* The request of thread t has its response ready and is about to return.
Returning(t) == pc[t] = "done"

\* C1: a request whose first attempt and retry both fail returns RemoteError
\* and leaves the cache fully cleared: no cached connection, no client.
C1_TwoFailuresClearCache ==
    \A t \in Threads :
        (Returning(t) /\ gh[t].flog = <<FALSE, FALSE>>) =>
            /\ Outcome(gh[t].resp) = "RemoteError"
            /\ mgr_connection = NoneConn
            /\ mgr_client = NoClient

\* C2: a request whose first attempt fails and whose retry succeeds returns
\* Succeeded, and the cache then holds the connection its re-detection pass
\* built, not the one the failed attempt used.
C2_RetrySuccessCachesNewConnection ==
    \A t \in Threads :
        (Returning(t) /\ gh[t].flog = <<FALSE, TRUE>>) =>
            /\ Outcome(gh[t].resp) = "Succeeded"
            /\ mgr_connection # NoneConn
            /\ mgr_connection = loc[t].det
            /\ connPass = gh[t].pass
            /\ connPass # gh[t].firstPass
            /\ gh[t].usedPass = gh[t].pass

C2_Witness ==
    \E t \in Threads :
        /\ Returning(t)
        /\ gh[t].flog = <<FALSE, TRUE>>
        /\ gh[t].firstPass # 0
        /\ connPass = gh[t].pass

\* C3 as claimed: whenever get_connection yields no connection, in the first
\* attempt or in the retry, the request ends NotFound, with no fetch in that
\* attempt and no reset or detection after it.
C3_NoConnectionIsNotFound ==
    \A t \in Threads :
        (Returning(t) /\ loc[t].conn = NoneConn /\ gh[t].detects > 0) =>
            /\ Outcome(gh[t].resp) = "NotFound"
            /\ Len(gh[t].flog) = loc[t].attempt - 1
            /\ gh[t].resets = loc[t].attempt - 1

\* C3 as amended: no connection in the first attempt ends the request
\* NotFound (503); no connection in the retry ends it RemoteError (500,
\* "Quota fetch failed"); either way that attempt issues no fetch and no
\* reset or detection pass follows.
C3_NoConnectionOutcome ==
    \A t \in Threads :
        (Returning(t) /\ loc[t].conn = NoneConn /\ gh[t].detects > 0) =>
            /\ loc[t].attempt = 1 => Outcome(gh[t].resp) = "NotFound"
            /\ loc[t].attempt = 2 => Outcome(gh[t].resp) = "RemoteError"
            /\ Len(gh[t].flog) = loc[t].attempt - 1
            /\ gh[t].resets = loc[t].attempt - 1
            /\ gh[t].detects <= loc[t].attempt
            /\ gh[t].plog = <<>> \/ ~gh[t].plog[Len(gh[t].plog)].ok

C3_Witness ==
    \E t \in Threads :
        /\ Returning(t)
        /\ loc[t].conn = NoneConn
        /\ loc[t].attempt = 2
        /\ gh[t].flog = <<FALSE>>
        /\ gh[t].plog # <<>>

\* C4 as claimed: after invalidate_connection the connection is gone, the
\* client it held is closed and the cache holds no client, so the next use
\* builds one.
C4_InvalidateTearsDownClient ==
    lastCall.op = "invalidate" =>
        /\ mgr_connection = NoneConn
        /\ mgr_client = NoClient
        /\ lastCall.client \notin open

\* C4 as amended: after invalidate_connection the connection is gone and
\* the client is untouched: the cache holds the same client as before, and
\* it is open if it was open.
C4_InvalidateKeepsClient ==
    lastCall.op = "invalidate" =>
        /\ mgr_connection = NoneConn
        /\ mgr_client = lastCall.client
        /\ (lastCall.client \in open) = lastCall.wasOpen

C4_Witness ==
    /\ lastCall.op = "invalidate"
    /\ lastCall.hadConn
    /\ lastCall.client # NoClient
    /\ lastCall.wasOpen

\* C5: with concurrent requests no probe or fetch is posted on a client
\* that another request's reset has closed, and no request reads the cache
\* while another request's reset has discarded half of it.
C5_CacheAccessSerialized ==
    \A t \in Threads : ~gh[t].closedPost /\ ~gh[t].sawHalf

\* C6: _test_port never raises; it returns a boolean, TRUE exactly when the
\* post returned, with status 200 and a body that parses as JSON.
C6_ProbeNeverRaises ==
    \A t \in Threads :
        /\ gh[t].resp.error # "Internal Server Error"
        /\ gh[t].lastProbe.o # "" =>
              /\ ~gh[t].lastProbe.raised
              /\ gh[t].lastProbe.ret \in BOOLEAN
              /\ gh[t].lastProbe.ret = (gh[t].lastProbe.o = "ok_json")

C6_Witness ==
    \E t \in Threads :
        /\ gh[t].lastProbe.o = "ok_not_json"
        /\ ~gh[t].lastProbe.ret
        /\ pc[t] \in {"cl_check", "gc_store"}

\* The listening ports of process p, as a set.
ListenSet(p) ==
    IF p.net_err # "none" THEN {}
    ELSE {p.conns[i].port : i \in {j \in 1..Len(p.conns) : p.conns[j].status = "LISTEN"}}

\* Process i of the enumeration matches and one of its listening ports
\* answers the probe.
Answers(i) ==
    /\ NameMatches(procs[i])
    /\ HasMarker(procs[i])
    /\ ExtractToken(procs[i].cmdline) # ""
    /\ \E p \in ListenSet(procs[i]) : portResp[p] = "ok_json"

\* Position of the process with the given pid in the enumeration.
IndexOfPid(pid) == CHOOSE i \in 1..Len(procs) : procs[i].pid = pid

\* C7: a detection pass during which no port changes its behaviour returns the first matching process, in enumeration
\* order, that has a listening port on which the probe succeeds, on the
\* smallest such port; it probes in ascending port order, no port twice,
\* and nothing after the first success; it returns None exactly when no
\* matching process has such a port.
C7_LocateFirstAnswering ==
    \A t \in Threads :
        (pc[t] = "gc_store" /\ gh[t].stable) =>
            LET L == gh[t].plog
                d == loc[t].det
            IN
            /\ (d = NoneConn) = ~(\E i \in 1..Len(procs) : Answers(i))
            /\ d # NoneConn =>
                  LET i == IndexOfPid(d.pid) IN
                  /\ Answers(i)
                  /\ \A j \in 1..(i - 1) : ~Answers(j)
                  /\ d.port \in ListenSet(procs[i])
                  /\ portResp[d.port] = "ok_json"
                  /\ \A p \in ListenSet(procs[i]) :
                        portResp[p] = "ok_json" => d.port <= p
                  /\ L # <<>>
                  /\ L[Len(L)] = [pid |-> d.pid, port |-> d.port, ok |-> TRUE]
            /\ \A k, m \in 1..Len(L) :
                  k < m =>
                     \/ IndexOfPid(L[k].pid) < IndexOfPid(L[m].pid)
                     \/ L[k].pid = L[m].pid /\ L[k].port < L[m].port
            /\ \A k \in 1..Len(L) : L[k].ok => k = Len(L)

C7_Witness ==
    \E t \in Threads :
        /\ pc[t] = "gc_store"
        /\ gh[t].stable
        /\ loc[t].det # NoneConn
        /\ Len(gh[t].plog) >= 2
        /\ gh[t].plog[1].pid # loc[t].det.pid
        /\ \E p \in ListenSet(procs[IndexOfPid(loc[t].det.pid)]) :
              p > loc[t].det.port /\ portResp[p] = "ok_json"

\* The report, once parse_quota_response has returned.
Report == out.report

\* |x|
Abs(x) == IF x < 0 THEN -x ELSE x

\* p tenths of a percent is a / b * 100 rounded to one decimal.
IsPercentOf(p, a, b) == 2 * Abs(p * b - 1000 * a) <= Abs(b)

\* What C8 says of one credit block, given its two raw inputs.
CreditBlockAsSpecified(monthly_raw, available_raw, block) ==
    /\ (block # NoBlock) =
          (/\ monthly_raw.kind # "none"
           /\ monthly_raw.val # 0
           /\ available_raw.kind # "none")
    /\ block # NoBlock =>
          /\ block.monthly = monthly_raw.val
          /\ block.available = available_raw.val
          /\ block.used = monthly_raw.val - available_raw.val
          /\ IsPercentOf(block.used_percentage, block.used, block.monthly)
          /\ IsPercentOf(block.remaining_percentage, block.available, block.monthly)

\* C8: a prompt or flow credit block is emitted exactly when monthly is
\* present and non-zero and available is present (0 included), with used =
\* monthly - available and both percentages rounded to one decimal;
\* monthly 100 and available 25 give used 75, 75.0 and 25.0.
C8_CreditBlocks ==
    out.done =>
        /\ CreditBlockAsSpecified(raw.monthlyPromptCredits,
                                  raw.availablePromptCredits, Report.prompt_credits)
        /\ CreditBlockAsSpecified(raw.monthlyFlowCredits,
                                  raw.availableFlowCredits, Report.flow_credits)
        /\ (raw.monthlyPromptCredits.val = 100 /\ raw.availablePromptCredits.val = 25) =>
              Report.prompt_credits =
                  [available |-> 25, monthly |-> 100, used |-> 75,
                   used_percentage |-> 750, remaining_percentage |-> 250]

C8_Witness ==
    /\ out.done
    /\ raw.monthlyPromptCredits = JInt(3)
    /\ raw.availablePromptCredits = JInt(0)
    /\ Report.prompt_credits # NoBlock
    /\ Report.prompt_credits.used_percentage = 1000
    /\ raw.monthlyFlowCredits = JInt(0)
    /\ Report.flow_credits = NoBlock

\* The used percentage as the ordering reads it: tenths, absent as 0.
OrderingUsed(x) == IF x.used_percentage = NoPct THEN 0 ELSE x.used_percentage.val

\* x may stand before y: exhausted first, then the greater used percentage.
InOrder(x, y) ==
    \/ x.is_exhausted /\ ~y.is_exhausted
    \/ x.is_exhausted = y.is_exhausted /\ OrderingUsed(x) >= OrderingUsed(y)

EqualKeys(x, y) ==
    x.is_exhausted = y.is_exhausted /\ OrderingUsed(x) = OrderingUsed(y)

\* Position of the raw entry of a model in the input.
RawPos(m) == CHOOSE i \in 1..Len(raw.models) : raw.models[i].model = m.model_id

\* Position of a pool's first model in the report's model list, which is
\* the order the pools are built in.
BuiltPos(p) ==
    CHOOSE i \in 1..Len(Report.models) : Report.models[i] = p.models[1]

ExampleA == [id |-> "A", is_exhausted |-> FALSE, used_percentage |-> Pct(900)]
ExampleB == [id |-> "B", is_exhausted |-> TRUE, used_percentage |-> Pct(100)]
ExampleC == [id |-> "C", is_exhausted |-> FALSE, used_percentage |-> Pct(950)]

\* C9: the model list and the pool list are both ordered exhausted first,
\* then by used percentage descending with an absent one as 0; entries with
\* equal keys keep their input order; A(false, 90), B(true, 10),
\* C(false, 95) come out as B, C, A.
C9_ListsOrderedByQuotaKey ==
    out.done =>
        LET ms == Report.models
            ps == Report.pools
        IN
        /\ \A i, j \in 1..Len(ms) : i < j =>
              /\ InOrder(ms[i], ms[j])
              /\ EqualKeys(ms[i], ms[j]) => RawPos(ms[i]) < RawPos(ms[j])
        /\ \A i, j \in 1..Len(ps) : i < j =>
              /\ InOrder(ps[i], ps[j])
              /\ EqualKeys(ps[i], ps[j]) => BuiltPos(ps[i]) < BuiltPos(ps[j])
        /\ SortByQuotaKey(<<ExampleA, ExampleB, ExampleC>>)
              = <<ExampleB, ExampleC, ExampleA>>

C9_Witness ==
    /\ out.done
    /\ Len(Report.models) = 3
    /\ Report.models[1].is_exhausted
    /\ RawPos(Report.models[1]) > 1
    /\ EqualKeys(Report.models[2], Report.models[3])
    /\ Len(Report.pools) = 3
    /\ Report.models[3].used_percentage # NoPct

\* Two remaining_fraction values compare equal: both absent, or both
\* numbers of the same value (0 and 0.0 alike).
FractionsEqual(f, g) ==
    \/ f.kind = "none" /\ g.kind = "none"
    \/ f.kind # "none" /\ g.kind # "none" /\ FractionValue(f) = FractionValue(g)

\* The pools of the report that hold model m.
PoolsOf(m) ==
    {k \in 1..Len(Report.pools) :
        \E i \in 1..Len(Report.pools[k].models) : Report.pools[k].models[i] = m}

\* C10: every model of the report is in exactly one pool, and two models
\* share a pool exactly when their reset_time texts are equal and their
\* remaining_fraction values compare equal.
C10_PoolsPartitionByValue ==
    out.done =>
        /\ \A i \in 1..Len(Report.models) :
              Cardinality(PoolsOf(Report.models[i])) = 1
        /\ \A i, j \in 1..Len(Report.models) :
              LET x == Report.models[i]
                  y == Report.models[j]
              IN (PoolsOf(x) = PoolsOf(y)) =
                    (/\ x.reset_time_iso = y.reset_time_iso
                     /\ FractionsEqual(x.remaining_fraction, y.remaining_fraction))

\* The rearrangements of a list of distinct entries.
Rearrangements(s) ==
    {q \in SeqsUpTo({s[i] : i \in 1..Len(s)}, Len(s)) : Len(q) = Len(s)}

\* The pool keys of a report, in the order of its pool list.
PoolKeySeq(report) == [i \in 1..Len(report.pools) |-> PoolKey(report.pools[i])]

\* C11: the order of the pools does not depend on the order of the models
\* in the raw input: every rearrangement of the same raw entries gives the
\* same pool keys in the same order, pools of equal sort keys included.
C11_PoolOrderIndependentOfInput ==
    out.done =>
        \A q \in Rearrangements(raw.models) :
            PoolKeySeq(ParseQuotaResponse([raw EXCEPT !.models = q]))
                = PoolKeySeq(Report)

\* Position of a family name in alphabetical order, letter case aside.
AlphaRank(f) ==
    CASE f = "Claude" -> 1
      [] f = "claude-gpt" -> 2
      [] f = "Gemini" -> 3
      [] f = "GPT" -> 4
      [] f = "GPT-4o" -> 5
      [] f = "Llama" -> 6
      [] f = "Mistral" -> 7
      [] f = "o3" -> 8
      [] f = "Qwen" -> 9
      [] f = "Unknown" -> 10

RECURSIVE Alphabetical(_)
\* The families in alphabetical order.
Alphabetical(fs) ==
    IF fs = {} THEN <<>>
    ELSE LET f == CHOOSE x \in fs : \A y \in fs : AlphaRank(x) <= AlphaRank(y)
         IN  <<f>> \o Alphabetical(fs \ {f})

\* The family of a label as C12 words it: Claude, then Gemini, then GPT by
\* substring, letter case aside; otherwise the label's first token.
FamilyAsSpecified(label) ==
    CASE HasClaude(label) -> "Claude"
      [] ~HasClaude(label) /\ HasGemini(label) -> "Gemini"
      [] ~HasClaude(label) /\ ~HasGemini(label) /\ HasGpt(label) -> "GPT"
      [] OTHER -> FirstToken(label)

\* The display name C12 gives a pool with these labels.
NameAsSpecified(labels) ==
    LET fs == {FamilyAsSpecified(labels[i]) : i \in 1..Len(labels)}
        n == Cardinality(fs)
    IN  IF Len(labels) = 1 THEN labels[1]
        ELSE IF n > 3 THEN "Premium Models"
        ELSE JoinFamilies(Alphabetical(fs)) \o " Models"

\* C12: a pool of one model is named by its label; a pool of several by the
\* families of its labels: "<Family> Models" for one family, the families
\* in alphabetical order joined by " / " plus " Models" for two or three,
\* "Premium Models" for more than three.
C12_PoolDisplayName ==
    out.done => out.name = NameAsSpecified(raw.labels)

\* The entry of the report built from the raw entry m.
EntryOf(m) ==
    CHOOSE x \in {Report.models[i] : i \in 1..Len(Report.models)} :
        x.model_id = m.model

\* C13: a response in which one model entry has a missing or malformed
\* sub-field is still normalised: parse_quota_response returns a report,
\* the report holds every well-formed entry, and an entry whose reset time
\* is missing or does not parse has time_until_reset 0.
C13_BadEntryDegrades ==
    out.done =>
        /\ ~out.raised
        /\ \A i \in 1..Len(raw.models) :
              \E j \in 1..Len(Report.models) :
                  Report.models[j].model_id = raw.models[i].model
        /\ ~ParseIso(raw.models[raw.bad].resetTime).ok =>
              EntryOf(raw.models[raw.bad]).time_until_reset_ms = 0

\* C14: a request makes at most two fetches and at most two detection
\* passes and resets at most once; its second attempt comes only after its
\* first fetch failed and reset() ran; the probes of the re-detection and
\* the second fetch go to a client other than the one of the failed fetch,
\* and the second fetch uses the connection the re-detection pass built.
C14_AtMostOneRetry ==
    \A t \in Threads :
        LET g == gh[t] IN
        /\ Len(g.flog) <= 2
        /\ g.detects <= 2
        /\ g.resets <= 1
        /\ loc[t].attempt \in {1, 2}
        /\ loc[t].attempt = 2 => (g.flog # <<>> /\ ~g.flog[1] /\ g.resets = 1)
        /\ loc[t].attempt = 1 => (Len(g.flog) <= 1 /\ g.resets = 0 /\ g.detects <= 1)
        /\ loc[t].attempt = 2 =>
              /\ ~g.holdsFirst
              /\ ~g.reusedClient
        /\ Len(g.flog) = 2 =>
              /\ g.detects >= 1
              /\ g.usedPass = g.pass
              /\ g.pass # g.firstPass
              /\ Returning(t)

C14_Witness ==
    \E t \in Threads :
        /\ Returning(t)
        /\ Len(gh[t].flog) = 2
        /\ gh[t].detects = 2
        /\ loc[t].cref \in open
        /\ loc[t].cref = nclients
        /\ nclients >= 2
        /\ gh[t].plog[Len(gh[t].plog)].ok

\* The process of the enumeration with the given pid supplied the token.
TokenComesFrom(pid, token) ==
    \E i \in 1..Len(procs) :
        /\ procs[i].pid = pid
        /\ ExtractToken(procs[i].cmdline) = token

\* Connection c was validated: a probe of pass p on its port, with its
\* token, returned True, and its pid is the process the token came from.
Validated(c, probe, p) ==
    /\ p # 0
    /\ probe.pass = p
    /\ probe.port = c.port
    /\ probe.token = c.csrf_token
    /\ probe.pid = c.pid
    /\ c.csrf_token # ""
    /\ TokenComesFrom(c.pid, c.csrf_token)

\* C15: the cache holds one connection or none; a connection it holds, and
\* any connection get_connection has returned to a request, has the port
\* and token of a probe that returned True in the detection pass that built
\* it, and the pid of the process whose command line supplied the token.
C15_CachedConnectionValidated ==
    /\ mgr_connection # NoneConn =>
          /\ mgr_connection \in [port : PortSet, csrf_token : STRING, pid : Nat,
                                 extension_port : Nat]
          /\ Validated(mgr_connection, connProbe, connPass)
    /\ \A t \in Threads :
          /\ (pc[t] = "gc_store" /\ loc[t].det # NoneConn) =>
                Validated(loc[t].det, gh[t].okProbe, gh[t].pass)
          /\ (pc[t] \in {"cl_check", "cl_create", "cl_return", "fq_post"}
                 /\ loc[t].ctx = "fetch") =>
                /\ loc[t].conn # NoneConn
                /\ loc[t].conn.csrf_token # ""
                /\ TokenComesFrom(loc[t].conn.pid, loc[t].conn.csrf_token)

C15_Witness ==
    /\ mgr_connection # NoneConn
    /\ connProbe.pass = connPass
    /\ connProbe.token = "tok-B"
    /\ \E t \in Threads :
          /\ pc[t] = "fq_post"
          /\ loc[t].conn = mgr_connection
          /\ Len(gh[t].plog) >= 2

\* Thread t is inside get_connection.
InGetConnection(t) ==
    \/ pc[t] \in {"gc_check", "gc_store", "gc_return"}
    \/ pc[t] \in {"cl_check", "cl_create", "cl_return", "tp_post"} /\ loc[t].ctx = "probe"

\* What C16 says of one step of thread t.
GetStepAsSpecified(t) ==
    \* the test of the cache: a hit goes straight to the return, scanning
    \* and probing nothing; a miss starts one detection pass
    /\ (pc[t] = "gc_check" /\ pc'[t] # "gc_check") =>
          IF mgr_connection # NoneConn
          THEN /\ pc'[t] = "gc_return"
               /\ npass' = npass
               /\ gh'[t].detects = gh[t].detects
               /\ gh'[t].plog = gh[t].plog
               /\ mgr_connection' = mgr_connection
          ELSE /\ pc'[t] \in {"cl_check", "gc_store"}
               /\ npass' = npass + 1
               /\ gh'[t].detects = gh[t].detects + 1
    \* no second pass inside the call
    /\ (InGetConnection(t) /\ pc[t] # "gc_check" /\ pc'[t] # pc[t]) =>
          /\ npass' = npass
          /\ gh'[t].detects = gh[t].detects
    \* the result of the pass is cached, a connection or nothing
    /\ (pc[t] = "gc_store" /\ pc'[t] # "gc_store") =>
          /\ mgr_connection' = loc[t].det
          /\ loc[t].det = NoneConn => mgr_connection' = NoneConn
    \* the cached connection is returned unchanged
    /\ (pc[t] = "gc_return" /\ pc'[t] # "gc_return") =>
          /\ loc'[t].conn = mgr_connection
          /\ mgr_connection' = mgr_connection
    \* a probe is posted only inside a pass
    /\ pc[t] = "tp_post" => gh[t].detects > 0 /\ gh[t].pass = npass

\* C16: get_connection runs a detection pass exactly when no connection is
\* cached: on a hit it returns the cached connection unchanged, scanning and
\* probing nothing; on a miss it runs one pass and caches what the pass
\* found, so after a pass that found nothing the cache is still empty and
\* the next get_connection detects again.
C16_DetectIffNotCached ==
    [][\A t \in Threads : GetStepAsSpecified(t)]_vars

C16_Witness ==
    \E t \in Threads :
        /\ started = 2
        /\ pc[t] = "gc_return"
        /\ gh[t].detects = 0
        /\ mgr_connection # NoneConn
        /\ loc[t].attempt = 1

\* C17: a client is closed by the time the cache stops referencing it:
\* every open client is the one the cache holds, so at most one client is
\* open at any time, whatever the interleaving of the requests.
C17_AtMostOneOpenClient ==
    /\ \A c \in open : c = mgr_client
    /\ Cardinality(open) <= 1

\* C19: with concurrent requests get_connection hands None to a request
\* only when the detection pass that request ran found no server; a request
\* whose own pass succeeded is never answered NotFound.
C19_NoneOnlyAfterFailedPass ==
    \A t \in Threads :
        /\ (Returning(t) /\ loc[t].conn = NoneConn /\ gh[t].resp.status # 0) =>
              /\ gh[t].detects > 0
              /\ gh[t].okProbe = NoProbe
        /\ (Returning(t) /\ Outcome(gh[t].resp) = "NotFound") =>
              gh[t].okProbe = NoProbe

\* Process p is one the scan must pass over: it lacks the binary name, the
\* marker flag or a token, or inspecting its sockets raises.
Disqualified(p) == ~NameMatches(p) \/ ~HasMarker(p) \/ ExtractToken(p.cmdline) = ""

SocketsRaise(p) == p.net_err \in {"AccessDenied", "NoSuchProcess", "ZombieProcess"}

\* The process of the enumeration with the given pid.
ProcOfPid(pid) == procs[IndexOfPid(pid)]

\* C18: a process without the binary name, the marker flag or a token is
\* never probed and never becomes the connection, nor is one whose socket
\* inspection raises; and none of them stops the scan: the processes after
\* it are examined, so a later process that answers is found.
C18_ScanSkipsAndContinues ==
    \A t \in Threads :
        LET L == gh[t].plog
            d == loc[t].det
        IN
        /\ \A k \in 1..Len(L) :
              ~Disqualified(ProcOfPid(L[k].pid)) /\ ~SocketsRaise(ProcOfPid(L[k].pid))
        /\ (pc[t] = "gc_store" /\ d # NoneConn) =>
              ~Disqualified(ProcOfPid(d.pid)) /\ ~SocketsRaise(ProcOfPid(d.pid))
        /\ (pc[t] = "gc_store" /\ gh[t].stable) =>
              LET last == IF d = NoneConn THEN Len(procs) ELSE IndexOfPid(d.pid) - 1
              IN
              /\ \A i \in 1..last :
                    (~Disqualified(procs[i]) /\ ~SocketsRaise(procs[i])) =>
                        \A p \in ListenSet(procs[i]) :
                            \E k \in 1..Len(L) :
                                L[k] = [pid |-> procs[i].pid, port |-> p, ok |-> FALSE]
              /\ \A i, j \in 1..Len(procs) :
                    (i < j /\ (Disqualified(procs[i]) \/ SocketsRaise(procs[i]))
                        /\ Answers(j)) =>
                        (d # NoneConn /\ IndexOfPid(d.pid) <= j)

C18_Witness ==
    \E t \in Threads :
        /\ pc[t] = "gc_store"
        /\ gh[t].stable
        /\ Len(procs) = 2
        /\ SocketsRaise(procs[1])
        /\ ~Disqualified(procs[1])
        /\ loc[t].det # NoneConn
        /\ loc[t].det.pid = procs[2].pid
        /\ \A k \in 1..Len(gh[t].plog) : gh[t].plog[k].pid = procs[2].pid
====
